---------------------------- MODULE Spec2Model ----------------------------
(***************************************************************************)
(* GreedyRuleListClassifier (imodels/greedy_rule_list.py): a CART-style    *)
(* learner that follows a single path and returns a list of rule nodes.    *)
(*                                                                         *)
(* Numbers.  Means and impurity scores are floating point in the program;  *)
(* here they are exact fractions <<n, d>> in lowest terms.  The fraction   *)
(* <<0, 0>> is the nan numpy returns for the mean of an empty array.       *)
(* Feature values and labels are small naturals.  Columns keep the         *)
(* program's 0-based index (index_col); row i of x is x[i], 1-based.       *)
(*                                                                         *)
(* fit is recursive and writes self.rules_ and self.depth on the way out   *)
(* of every call, so it is a step machine: pc, arg and stack hold the      *)
(* position of the recursion.  Left out: the pandas conversion and the     *)
(* feature names (lines 48-58), verbose printing, __str__ and print_list.  *)
(* neg_corr is modelled where it runs (a numpy that still has np.int).     *)
(***************************************************************************)
EXTENDS Integers, Sequences, FiniteSets, TLC

\* ---------------------------------------------------------------- bounds
MaxRows == 4
MaxDepth == 2
RefitRows == 2
MaxSelfDepth == 3

Cols == {0, 1}
NumCols == Cardinality(Cols)
FeatVals == {0, 1}
Labels == {0, 1}

\* ------------------------------------------------------------- fractions
Abs(n) == IF n < 0 THEN -n ELSE n

RECURSIVE Gcd(_, _)
Gcd(a, b) == IF b = 0 THEN a ELSE Gcd(b, a % b)

Reduce(n, d, g) == IF d < 0 THEN <<(-n) \div g, (-d) \div g>> ELSE <<n \div g, d \div g>>
Frac(n, d) == IF d = 0 THEN <<0, 0>> ELSE Reduce(n, d, Gcd(Abs(n), Abs(d)))

NaN == <<0, 0>>
IsNaN(a) == a[2] = 0
Lcm(a, b) == (a \div Gcd(a, b)) * b

\* the numerator of a over the common denominator l
Over(a, l) == a[1] * (l \div a[2])
AddOver(a, b, l) == Frac(Over(a, l) + Over(b, l), l)
FAdd(a, b) == AddOver(a, b, Lcm(a[2], b[2]))
FMul(a, b) == Frac(a[1] * b[1], a[2] * b[2])
FOneMinus(a) == Frac(a[2] - a[1], a[2])

\* IEEE comparisons: every comparison with nan is false
LtOver(a, b, l) == Over(a, l) < Over(b, l)
LeqOver(a, b, l) == Over(a, l) <= Over(b, l)
FLt(a, b) == ~IsNaN(a) /\ ~IsNaN(b) /\ LtOver(a, b, Lcm(a[2], b[2]))
FLeq(a, b) == ~IsNaN(a) /\ ~IsNaN(b) /\ LeqOver(a, b, Lcm(a[2], b[2]))
FGeq(a, b) == FLeq(b, a)
FGt(a, b) == FLt(b, a)

\* ---------------------------------------------------------------- arrays
RECURSIVE Sum(_)
Sum(s) == IF s = <<>> THEN 0 ELSE Head(s) + Sum(Tail(s))

\* y[mask]: boolean-mask indexing of numpy
RECURSIVE Take(_, _)
Take(s, mask) ==
    IF s = <<>> THEN <<>>
    ELSE (IF Head(mask) THEN <<Head(s)>> ELSE <<>>) \o Take(Tail(s), Tail(mask))

Not(mask) == [i \in DOMAIN mask |-> ~mask[i]]
Count(s, c) == Cardinality({i \in DOMAIN s : s[i] = c})
Classes(s) == {s[i] : i \in DOMAIN s}

\* np.mean
Mean(y) == Frac(Sum(y), Len(y))

\* x[:, col], col 0-based
Column(x, col) == [i \in DOMAIN x |-> x[i][col + 1]]

\* col < value for a whole column; value is a fraction (the cutoff)
Below(c, cutoff) == [i \in DOMAIN c |-> FLt(<<c[i], 1>>, cutoff)]
AtLeast(c, cutoff) == [i \in DOMAIN c |-> FGeq(<<c[i], 1>>, cutoff)]

all_same(items) == \A i \in DOMAIN items : items[i] = items[1]

\* ------------------------------------------------------------ criterion
\* A criterion value is [t, n, d]:
\*   "frac"  the number n / d             (gini, entropy)
\*   "corr"  the number n / sqrt(d)       (neg_corr; d = 0 is the nan that
\*           np.corrcoef returns when one of the two vectors is constant)
\*   "big"   the initial value 1e10 of min_criterion_val
Score(t, n, d) == [t |-> t, n |-> n, d |-> d]
Big == Score("big", 1, 1)
SFrac(f) == Score("frac", f[1], f[2])
SIsNaN(s) == s.t # "big" /\ s.d = 0
SIsZero(s) == s.t # "big" /\ s.d # 0 /\ s.n = 0
Sign(n) == IF n < 0 THEN -1 ELSE IF n > 0 THEN 1 ELSE 0

\* n / d = n / sqrt(d * d) for d > 0
AsCorr(s) == IF s.t = "frac" THEN Score("corr", s.n, s.d * s.d) ELSE s

\* p.n / sqrt(p.d) <= q.n / sqrt(q.d), by sign and by squares
CorrLeq(p, q) ==
    IF Sign(p.n) # Sign(q.n) THEN Sign(p.n) < Sign(q.n)
    ELSE IF Sign(p.n) = 0 THEN TRUE
    ELSE IF Sign(p.n) > 0 THEN p.n * p.n * q.d <= q.n * q.n * p.d
    ELSE p.n * p.n * q.d >= q.n * q.n * p.d

\* criterion_val <= min_criterion_val
SLeq(a, b) ==
    IF SIsNaN(a) \/ SIsNaN(b) THEN FALSE
    ELSE IF b.t = "big" THEN TRUE
    ELSE IF a.t = "big" THEN FALSE
    ELSE IF a.t = "frac" /\ b.t = "frac" THEN FLeq(<<a.n, a.d>>, <<b.n, b.d>>)
    ELSE CorrLeq(AsCorr(a), AsCorr(b))

RECURSIVE FSum(_, _)
FSum(S, f) ==
    IF S = {} THEN <<0, 1>>
    ELSE LET c == CHOOSE e \in S : TRUE IN FAdd(f[c], FSum(S \ {c}, f))

\* sum(pc * (1 - pc)) over the classes present in y
GiniTerm(p_c) == FMul(p_c, FOneMinus(p_c))
gini_criterion(y) ==
    FSum(Classes(y), [c \in Classes(y) |-> GiniTerm(Frac(Count(y, c), Len(y)))])

\* math.log(k, 2) in thousandths, k = 1 .. 8
Log2Fix == <<0, 1000, 1585, 2000, 2322, 2585, 2807, 3000>>

\* -p * math.log(p, 2), p a fraction in lowest terms
entropy_func(p) ==
    FMul(Frac(-p[1], p[2]), Frac(Log2Fix[p[1]] - Log2Fix[p[2]], Log2Fix[2]))

entropy_from_counts(c1, c2) ==
    IF c1 = 0 \/ c2 = 0 THEN <<0, 1>>
    ELSE FAdd(entropy_func(Frac(c1, c1 + c2)), entropy_func(Frac(c2, c1 + c2)))

\* weight * entropy_from_counts(sum(y == c), sum(y != c))
EntropyTerm(n_c, n) == FMul(Frac(n_c, n), entropy_from_counts(n_c, n - n_c))
entropy_criterion(y) ==
    FSum(Classes(y), [c \in Classes(y) |-> EntropyTerm(Count(y, c), Len(y))])

\* n times the covariance of two vectors of length n
Cov(a, b) == Len(a) * Sum([i \in DOMAIN a |-> a[i] * b[i]]) - Sum(a) * Sum(b)

\* -1 * np.corrcoef(a, y)[0, 1] = -cov(a, y) / sqrt(var(a) * var(y))
NegCorr(a, y) == Score("corr", -Cov(a, y), Cov(a, a) * Cov(y, y))

\* -1 * np.corrcoef(split_decision.astype(int), y)[0, 1]
neg_corr_criterion(split_decision, y) ==
    IF Cardinality(Classes(y)) < 2 THEN Score("corr", 0, 1)
    ELSE NegCorr([i \in DOMAIN y |-> IF split_decision[i] THEN 1 ELSE 0],
                 IF 2 * Sum(y) < Len(y) THEN [i \in DOMAIN y |-> 1 - y[i]] ELSE y)

KnownCriteria == {"entropy", "gini", "neg_corr"}

\* criterion_func stays unbound for any other criterion: the call at
\* line 237 raises UnboundLocalError
Unbound(crit) == crit \notin KnownCriteria

criterion_func(crit, y) ==
    CASE crit = "entropy" -> entropy_criterion(y)
      [] crit = "gini" -> gini_criterion(y)

\* class_weight is a function class -> weight; None is the all-ones function.
\* (The length test of lines 224-226 never fires: every mask is built from
\* a column of the same rows as y.)
SampleWeights(cw, y_real) == [i \in DOMAIN y_real |-> cw[y_real[i]]]

\* np.sum(sample_weights[side]) / tot_weight
Weight(cw, side, y_real) ==
    Frac(Sum(Take(SampleWeights(cw, y_real), side)), Sum(SampleWeights(cw, y_real)))

weighted_criterion(crit, cw, split_decision, y_real) ==
    IF crit = "neg_corr" THEN neg_corr_criterion(split_decision, y_real)
    ELSE SFrac(FAdd(FMul(Weight(cw, split_decision, y_real),
                         criterion_func(crit, Take(y_real, split_decision))),
                    FMul(Weight(cw, Not(split_decision), y_real),
                         criterion_func(crit, Take(y_real, Not(split_decision))))))

\* ------------------------------------------------------- split selection
\* set(col) is iterated in an order the language leaves to the
\* implementation: order is a sequence holding every feature value once,
\* and the values present in col are visited in that order.
Present(order, col) == SelectSeq(order, LAMBDA v : v \in Classes(col))

\* lines 214-217: one value of the column against the best so far
SplitVisit(value, criterion_val, best) ==
    IF SLeq(criterion_val, best.criterion_val)
    THEN [criterion_val |-> criterion_val, cutoff |-> <<value, 1>>]
    ELSE best

RECURSIVE SplitLoop(_, _, _, _, _, _)
SplitLoop(crit, cw, values, col, y, best) ==
    IF values = <<>> THEN best
    ELSE SplitLoop(crit, cw, Tail(values), col, y,
                   SplitVisit(Head(values),
                              weighted_criterion(crit, cw, Below(col, <<Head(values), 1>>), y),
                              best))

\* returns min_criterion_val and cutoff
split_on_feature(crit, cw, order, col, y) ==
    SplitLoop(crit, cw, Present(order, col), col, y,
              [criterion_val |-> Big, cutoff |-> <<1, 2>>])

NoCol == -1

Found(i, r) == [col |-> i, cutoff |-> r.cutoff, criterion_val |-> r.criterion_val]

RECURSIVE FindLoop(_, _, _, _, _, _, _)

\* FindVisit with a fault: < instead of <=, a later column replaces the
\* best only when strictly better
FindVisitStrict(crit, cw, order, x, y, i, best, r) ==
    IF SIsZero(r.criterion_val) THEN Found(i, r)
    ELSE IF SLeq(r.criterion_val, best.criterion_val)
            /\ ~SLeq(best.criterion_val, r.criterion_val)
    THEN FindLoop(crit, cw, order, x, y, i + 1, Found(i, r))
    ELSE FindLoop(crit, cw, order, x, y, i + 1, best)

\* lines 186-194: column i, whose best split is r, against the best so far
FindVisit(crit, cw, order, x, y, i, best, r) ==
    IF SIsZero(r.criterion_val) THEN Found(i, r)
    ELSE IF SLeq(r.criterion_val, best.criterion_val)
    THEN FindLoop(crit, cw, order, x, y, i + 1, Found(i, r))
    ELSE FindLoop(crit, cw, order, x, y, i + 1, best)

FindLoop(crit, cw, order, x, y, i, best) ==
    IF i >= NumCols THEN best
    ELSE FindVisit(crit, cw, order, x, y, i, best,
                   split_on_feature(crit, cw, order, Column(x, i), y))

\* returns col, cutoff and the criterion value
find_best_split(crit, cw, order, x, y) ==
    FindLoop(crit, cw, order, x, y, 0,
             [col |-> NoCol, cutoff |-> NaN, criterion_val |-> Big])

\* ------------------------------------------------------------ rule nodes
Leaf(val, num_pts) == [val |-> val, num_pts |-> num_pts]
IsSplit(rule) == "index_col" \in DOMAIN rule
IsLeaf(rule) == ~IsSplit(rule)

\* BaseCase with a fault: the depth ceiling tested before the pure partition
BaseCaseCeilingFirst(y, depth, maxd) ==
    IF Len(y) = 0 THEN "empty"
    ELSE IF depth >= maxd THEN "ceiling"
    ELSE IF all_same(y) THEN "pure"
    ELSE "split"

\* BaseCase with a fault: the depth ceiling tested with > instead of >=
BaseCaseOffByOne(y, depth, maxd) ==
    IF Len(y) = 0 THEN "empty"
    ELSE IF all_same(y) THEN "pure"
    ELSE IF depth > maxd THEN "ceiling"
    ELSE "split"

\* the three base cases of fit, in the order the code tests them
BaseCase(y, depth, maxd) ==
    IF Len(y) = 0 THEN "empty"
    ELSE IF all_same(y) THEN "pure"
    ELSE IF depth >= maxd THEN "ceiling"
    ELSE "split"

BaseResult(y, depth, maxd) ==
    IF BaseCase(y, depth, maxd) = "pure" THEN <<Leaf(<<y[1], 1>>, Len(y))>> ELSE <<>>

\* lines 93-106: the node, and the data the recursive call gets; right and
\* left are the masks of the two sides after the swap
Emit(x, y, s, flip, right, left) ==
    [node |-> [col |-> <<"feat", s.col>>,
               index_col |-> s.col,
               cutoff |-> s.cutoff,
               val |-> Mean(y),
               flip |-> flip,
               val_right |-> Mean(Take(y, right)),
               num_pts |-> Len(y),
               num_pts_right |-> Len(Take(y, right))],
     x_left |-> Take(x, left),
     y_left |-> Take(y, left)]

\* lines 80-88: lo is x[:, col] < cutoff, hi is x[:, col] >= cutoff
Orient(x, y, s, lo, hi, flip) ==
    IF flip THEN Emit(x, y, s, TRUE, lo, hi) ELSE Emit(x, y, s, FALSE, hi, lo)

\* lines 78-80
Partition(x, y, s, lo, hi) ==
    Orient(x, y, s, lo, hi, FGt(Mean(Take(y, lo)), Mean(Take(y, hi))))

\* lines 75-106 for the split s that find_best_split returned
SplitOn(x, y, s) ==
    Partition(x, y, s, Below(Column(x, s.col), s.cutoff), AtLeast(Column(x, s.col), s.cutoff))

SplitStep(crit, cw, order, x, y) == SplitOn(x, y, find_best_split(crit, cw, order, x, y))

\* ------------------------------------------------------------- inference
\* the inner loop of predict_proba over rules[j ..] for one row; prob is
\* the value probs[i] holds so far
\* line 122: x[rule['index_col']] >= rule['cutoff']
Triggers(rule, row) == FGeq(<<row[rule.index_col + 1], 1>>, rule.cutoff)

RECURSIVE Walk(_, _, _, _)
Walk(rules, j, row, prob) ==
    IF j > Len(rules) THEN prob
    ELSE IF j = Len(rules) THEN rules[j].val
    ELSE IF Triggers(rules[j], row) THEN rules[j].val
    ELSE Walk(rules, j + 1, row, prob)

\* rule['index_col'] on a node that has no such key
WalkKeyError(rules) == \E j \in 1 .. Len(rules) - 1 : IsLeaf(rules[j])

predict_proba(rules, X) == [i \in DOMAIN X |-> Walk(rules, 1, X[i], <<0, 1>>)]

\* (predict_proba(X) > 0.5).argmax(axis=1)
ArgMax(p) == IF FGt(FOneMinus(p), <<1, 2>>) THEN 0 ELSE IF FGt(p, <<1, 2>>) THEN 1 ELSE 0
predict(rules, X) == [i \in DOMAIN X |-> ArgMax(predict_proba(rules, X)[i])]

\* ----------------------------------------------------------------- state
VARIABLES
    criterion,      \* self.criterion
    class_weight,   \* self.class_weight
    max_depth,      \* self.max_depth
    self_depth,     \* self.depth
    fitted,         \* whether the attribute rules_ exists
    rules_,         \* self.rules_ (<<>> while the attribute does not exist)
    pc,             \* "idle", or inside fit: "call" (a call of fit is about to
                    \* run its body), "return" (a call has just returned ret)
    arg,            \* the arguments x, y, depth of the call about to run
    stack,          \* the calls of fit waiting at line 106, outermost first
    ret,            \* the list the last finished call returned
    fitlog,         \* history of the current or last top-level fit
    pred            \* history of the last predict or predict_proba call

vars == <<criterion, class_weight, max_depth, self_depth, fitted, rules_,
          pc, arg, stack, ret, fitlog, pred>>

params == <<criterion, class_weight, max_depth>>

Rows == [1 .. NumCols -> FeatVals]
Orders == {o \in [1 .. Cardinality(FeatVals) -> FeatVals] :
              \A v \in FeatVals : \E i \in DOMAIN o : o[i] = v}

\* A feature matrix with its label vector, as a sequence of <<row, label>>.
\* fit reads its data through counts, sums and masks only, so the order of
\* the rows changes nothing but the order inside each partition: the rows
\* are listed in one order, by Code.
RECURSIVE Code(_)
Code(s) == IF s = <<>> THEN 0 ELSE Head(s) + Cardinality(FeatVals \cup Labels) * Code(Tail(s))
Ordered(d) == \A i \in 1 .. Len(d) - 1 : Code(Append(d[i][1], d[i][2])) <= Code(Append(d[i + 1][1], d[i + 1][2]))
Data(n) == {d \in UNION {[1 .. k -> Rows \X Labels] : k \in 0 .. n} : Ordered(d)}
FitData == Data(MaxRows)
RefitData == Data(RefitRows)
XOf(xy) == [i \in DOMAIN xy |-> xy[i][1]]
YOf(xy) == [i \in DOMAIN xy |-> xy[i][2]]

Criteria == KnownCriteria \cup {"mse"}
ClassWeights == {[c \in Labels |-> 1], [c \in Labels |-> 1 + c]}

NoArg == [x |-> <<>>, y |-> <<>>, depth |-> 0]
NoFit == [x |-> <<>>, y |-> <<>>, max_depth |-> 0, outcome |-> "none",
          result |-> <<>>, trace |-> <<>>, deepest |-> 0,
          fitted0 |-> FALSE, rules0 |-> <<>>]
NoPred == [op |-> "none", X |-> <<>>, out |-> "none", probs |-> <<>>, classes |-> <<>>]

Init ==
    /\ criterion \in Criteria
    /\ class_weight \in ClassWeights
    /\ max_depth \in 0 .. MaxDepth
    /\ self_depth = 0
    /\ fitted = FALSE
    /\ rules_ = <<>>
    /\ pc = "idle"
    /\ arg = NoArg
    /\ stack = <<>>
    /\ ret = <<>>
    /\ fitlog = NoFit
    /\ pred = NoPred

\* ------------------------------------------------------------------- fit
\* the caller's call fit(x, y)
FitCall(x, y) ==
    /\ pc = "idle"
    /\ pc' = "call"
    /\ arg' = [x |-> x, y |-> y, depth |-> 0]
    /\ stack' = <<>>
    /\ ret' = <<>>
    /\ fitlog' = [x |-> x, y |-> y, max_depth |-> max_depth, outcome |-> "running",
                  result |-> <<>>, trace |-> <<>>, deepest |-> 0,
                  fitted0 |-> fitted, rules0 |-> rules_]
    /\ pred' = NoPred
    /\ UNCHANGED <<params, self_depth, fitted, rules_>>

\* lines 60-70: a call that ends in a base case
FitBase ==
    /\ pc = "call"
    /\ BaseCase(arg.y, arg.depth, max_depth) # "split"
    /\ ret' = BaseResult(arg.y, arg.depth, max_depth)
    /\ pc' = "return"
    /\ UNCHANGED <<params, self_depth, fitted, rules_, arg, stack, fitlog, pred>>

\* lines 72-106: a call that splits and calls fit on the left-hand data
FitSplitWith(s) ==
    /\ stack' = Append(stack, [par_node |-> <<s.node>>, depth |-> arg.depth])
    /\ arg' = [x |-> s.x_left, y |-> s.y_left, depth |-> arg.depth + 1]
    /\ fitlog' = [fitlog EXCEPT
           !.trace = Append(@, [x |-> arg.x, y |-> arg.y, x_left |-> s.x_left,
                                col |-> s.node.index_col]),
           !.deepest = arg.depth + 1]

FitSplit ==
    /\ pc = "call"
    /\ BaseCase(arg.y, arg.depth, max_depth) = "split"
    /\ ~Unbound(criterion)
    /\ \E order \in Orders :
           FitSplitWith(SplitStep(criterion, class_weight, order, arg.x, arg.y))
    /\ UNCHANGED <<params, self_depth, fitted, rules_, pc, ret, pred>>

\* line 237 with criterion_func unbound: the error leaves every call of fit
FitRaise ==
    /\ pc = "call"
    /\ BaseCase(arg.y, arg.depth, max_depth) = "split"
    /\ Unbound(criterion)
    /\ pc' = "idle"
    /\ stack' = <<>>
    /\ arg' = NoArg
    /\ fitlog' = [fitlog EXCEPT !.outcome = "raised"]
    /\ UNCHANGED <<params, self_depth, fitted, rules_, ret, pred>>

\* lines 106-110 in the call on top of the stack, once its recursive call
\* has returned ret
FitReturn ==
    /\ pc = "return"
    /\ stack # <<>>
    /\ self_depth' = self_depth + 1
    /\ rules_' = stack[Len(stack)].par_node \o ret
    /\ fitted' = TRUE
    /\ ret' = rules_'
    /\ stack' = SubSeq(stack, 1, Len(stack) - 1)
    /\ UNCHANGED <<params, pc, arg, fitlog, pred>>

\* the outermost call hands its list to the caller
FitDone ==
    /\ pc = "return"
    /\ stack = <<>>
    /\ pc' = "idle"
    /\ arg' = NoArg
    /\ fitlog' = [fitlog EXCEPT !.outcome = "returned", !.result = ret]
    /\ UNCHANGED <<params, self_depth, fitted, rules_, stack, ret, pred>>

\* --------------------------------------------------------------- predict
\* self.rules_ raises AttributeError while the attribute does not exist
PredictRaises == ~fitted \/ WalkKeyError(rules_)

PredictProba(X) ==
    /\ pc = "idle"
    /\ pred' = IF PredictRaises
               THEN [NoPred EXCEPT !.op = "predict_proba", !.X = X, !.out = "raised"]
               ELSE [NoPred EXCEPT !.op = "predict_proba", !.X = X, !.out = "returned",
                                   !.probs = predict_proba(rules_, X)]
    /\ UNCHANGED <<params, self_depth, fitted, rules_, pc, arg, stack, ret, fitlog>>

Predict(X) ==
    /\ pc = "idle"
    /\ pred' = IF PredictRaises
               THEN [NoPred EXCEPT !.op = "predict", !.X = X, !.out = "raised"]
               ELSE [NoPred EXCEPT !.op = "predict", !.X = X, !.out = "returned",
                                   !.probs = predict_proba(rules_, X),
                                   !.classes = predict(rules_, X)]
    /\ UNCHANGED <<params, self_depth, fitted, rules_, pc, arg, stack, ret, fitlog>>

\* the matrices predict is called on: no row, or one row of any content
Inputs == {<<>>} \cup {<<r>> : r \in Rows}

\* a new classifier, fitted once and then used
FirstFit ==
    /\ fitlog.outcome = "none"
    /\ \E xy \in FitData : FitCall(XOf(xy), YOf(xy))

Next ==
    \/ FirstFit
    \/ FitBase
    \/ FitSplit
    \/ FitRaise
    \/ FitReturn
    \/ FitDone
    \/ \E X \in Inputs : PredictProba(X)
    \/ \E X \in Inputs : Predict(X)

Spec == Init /\ [][Next]_vars

\* ------------------------------------------------------ one instance reused
\* BaseEstimator.set_params(max_depth=d), or the assignment clf.max_depth = d
SetParams(d) ==
    /\ pc = "idle"
    /\ d # max_depth
    /\ max_depth' = d
    /\ pred' = NoPred
    /\ UNCHANGED <<criterion, class_weight, self_depth, fitted, rules_,
                   pc, arg, stack, ret, fitlog>>

\* self.depth grows with every fit: the instance is followed until it
\* reaches MaxSelfDepth
Refit ==
    /\ self_depth < MaxSelfDepth
    /\ \E xy \in RefitData : FitCall(XOf(xy), YOf(xy))

NextRefit ==
    \/ Refit
    \/ FitBase
    \/ FitSplit
    \/ FitReturn
    \/ FitDone
    \/ \E X \in Inputs : PredictProba(X)
    \/ \E X \in Inputs : Predict(X)
    \/ \E d \in 0 .. MaxDepth : SetParams(d)

InitRefit ==
    /\ Init
    /\ criterion = "gini"
    /\ class_weight = [c \in Labels |-> 1]

SpecRefit == InitRefit /\ [][NextRefit]_vars

\* ================================================================ claims
Returned == pc = "idle" /\ fitlog.outcome = "returned"
Predicted == pred.op # "none" /\ pred.out = "returned"

\* the non-last split nodes of rules whose test holds for row
Triggered(rules, row) == {j \in 1 .. Len(rules) - 1 : Triggers(rules[j], row)}
Lowest(S) == CHOOSE j \in S : \A k \in S : j <= k

\* C1: predict_proba gives a row the val_right of the first split node, not
\* the last node, whose test row[index_col] >= cutoff holds, and the val of
\* the last node when no such node triggers.
C1_FirstTriggeredValRight ==
    Predicted =>
        \A i \in DOMAIN pred.X :
            pred.probs[i] =
                IF Triggered(rules_, pred.X[i]) # {}
                THEN rules_[Lowest(Triggered(rules_, pred.X[i]))].val_right
                ELSE rules_[Len(rules_)].val

\* C2: every Split node of the list fit returns has val_right >= val.
C2_ValRightAtLeastVal ==
    Returned =>
        \A k \in DOMAIN fitlog.result :
            IsSplit(fitlog.result[k]) =>
                FGeq(fitlog.result[k].val_right, fitlog.result[k].val)

\* C3: after any sequence of top-level fit calls rules_ is the list the most
\* recent one returned; read here for the re-fit of an instance that already
\* holds rules, the case the claim singles out.
C3_RulesAreLastResult ==
    (Returned /\ fitlog.fitted0) => (fitted /\ rules_ = fitlog.result)

\* C4: a non-empty label vector whose entries are all equal gives exactly
\* one node, a Leaf holding the common label and len(y), whatever max_depth.
C4_PureGivesOneLeaf ==
    (Returned /\ Len(fitlog.y) > 0 /\ all_same(fitlog.y)) =>
        fitlog.result = <<Leaf(<<fitlog.y[1], 1>>, Len(fitlog.y))>>

C4_Witness ==
    /\ Returned
    /\ Len(fitlog.y) >= 2
    /\ all_same(fitlog.y)
    /\ fitlog.max_depth = 0
    /\ fitlog.result = <<Leaf(<<fitlog.y[1], 1>>, Len(fitlog.y))>>

\* C5: with max_depth = 0, fit on labels that are not pure returns the empty
\* list, and every predict or predict_proba call after it raises.
C5_EmptyListPredictRaises ==
    (Returned /\ fitlog.max_depth = 0 /\ Len(fitlog.y) > 0 /\ ~all_same(fitlog.y)) =>
        /\ fitlog.result = <<>>
        /\ pred.op # "none" => pred.out = "raised"

\* C6: with a criterion that is not gini, entropy or neg_corr, no fit call
\* returns a list or stores fitted state.
C6_UnknownCriterionNeverReturns ==
    Unbound(criterion) => (fitlog.outcome # "returned" /\ ~fitted)

\* C7: for every split node k that is not the last and every training row
\* that reached it, the test of predict_proba holds for the row exactly when
\* fit did not pass the row on as left-hand data.
InRows(row, x) == \E i \in DOMAIN x : x[i] = row
C7_FitAndPredictAgree ==
    Returned =>
        \A k \in 1 .. Len(fitlog.result) - 1 :
            \A i \in DOMAIN fitlog.trace[k].x :
                Triggers(fitlog.result[k], fitlog.trace[k].x[i])
                    <=> ~InRows(fitlog.trace[k].x[i], fitlog.trace[k].x_left)

\* C8: no call of fit runs deeper than max_depth, and the returned list is
\* Split nodes followed by at most one Leaf: at most max_depth Split nodes
\* and at most max_depth + 1 nodes.
Splits(rules) == {j \in DOMAIN rules : IsSplit(rules[j])}
C8_DepthAndShape ==
    /\ pc # "idle" => (arg.depth <= max_depth /\ Len(stack) <= max_depth)
    /\ fitlog.deepest <= fitlog.max_depth
    /\ Returned =>
          /\ \A j \in 1 .. Len(fitlog.result) - 1 : IsSplit(fitlog.result[j])
          /\ Cardinality(Splits(fitlog.result)) <= fitlog.max_depth
          /\ Len(fitlog.result) <= fitlog.max_depth + 1

C8_Witness ==
    /\ Returned
    /\ fitlog.max_depth >= 2
    /\ fitlog.deepest = fitlog.max_depth
    /\ Len(fitlog.result) = fitlog.max_depth + 1
    /\ IsLeaf(fitlog.result[Len(fitlog.result)])

\* the best criterion value of each column, for the data of one call
ColScores(t) ==
    [c \in Cols |->
        split_on_feature(criterion, class_weight, CHOOSE o \in Orders : TRUE,
                         Column(t.x, c), t.y).criterion_val]
NoPerfect(sc) == \A c \in Cols : ~SIsZero(sc[c])
Minimal(sc) == {c \in Cols : \A e \in Cols : SLeq(sc[c], sc[e])}
IsMax(c, S) == c \in S /\ \A e \in S : e <= c
IsMin(c, S) == c \in S /\ \A e \in S : c <= e
HighestMinimal(col, sc) == NoPerfect(sc) => IsMax(col, Minimal(sc))
LowestMinimal(col, sc) == NoPerfect(sc) => IsMin(col, Minimal(sc))

\* C9 (as amended): when no column scores exactly 0, find_best_split returns
\* a column of minimal score, and among the columns tied at the minimal
\* score the one with the highest column index.
\* (read in the state right after the split is made: the call's data and
\* the column it chose are the last entry of the trace)
JustSplit == pc = "call" /\ fitlog.trace # <<>>
LastSplit == fitlog.trace[Len(fitlog.trace)]

C9_HighestIndexAmongTies ==
    JustSplit => HighestMinimal(LastSplit.col, ColScores(LastSplit))

C9_Witness ==
    /\ JustSplit
    /\ NoPerfect(ColScores(LastSplit))
    /\ Cardinality(Minimal(ColScores(LastSplit))) >= 2
    /\ IsMax(LastSplit.col, Minimal(ColScores(LastSplit)))

\* C9 (as stated): ... among the tied columns the one with the lowest index.
C9_LowestIndexAmongTies ==
    JustSplit => LowestMinimal(LastSplit.col, ColScores(LastSplit))

\* C10: while a top-level fit has calls outstanding, rules_ still holds what
\* it held before that fit started.
C10_RulesWrittenOnce ==
    (pc # "idle" /\ stack # <<>>) =>
        (fitted = fitlog.fitted0 /\ rules_ = fitlog.rules0)

=============================================================================
